---- MODULE Spec2Model ----
(***************************************************************************)
(* Model of src/src/openMVG/sfm/Rig.hpp: the Rig class (RigSpec) and the    *)
(* meshing driver main() (Spec: option parsing, the partitioning switch,   *)
(* the auto and single-block pipelines and the resolution search).         *)
(* External collaborators of main (largeScale,                             *)
(* reconstructionPlan, mv_delaunay_GC, ...) are calls that either return   *)
(* or throw; what they return is drawn from small sets.                    *)
(***************************************************************************)
EXTENDS Integers, FiniteSets, Sequences, TLC

(* ---------------- bounds of the model ---------------- *)
\* width of unsigned long in the model (scaled down from 64)
ULongBits == 24
\* largest track count getNTracks returns
MaxTracks == 4
\* how far below zero the grid resolution is followed in the search
MaxBelowZero == 100
\* largest number of vertices / faces of a mesh returned by a collaborator
MaxMeshElems == 1

\* largest number of sub-poses of a rig
MaxSubPoses == 2

(* ---------------- program constants ---------------- *)
DefaultMaxPts == 6000000
DefaultGridLevel0 == 1024
SlowStep == 100

\* lowest grid resolution the search is followed to
MinOcTreeDim == 0 - MaxBelowZero

ULongModulus == 2 ^ ULongBits
\* std::numeric_limits<unsigned long>::max()
ULongMax == ULongModulus - 1

(* ---------------- inputs ---------------- *)
RequiredParams == {"ini", "depthMapFolder", "depthMapFilterFolder", "output"}
OptionalParams == {"maxPts", "maxPtsPerVoxel", "partitioning"}
\* allParams.add(requiredParams).add(optionalParams)
AllParams == RequiredParams \cup OptionalParams

\* option names that may appear on a command line
ArgNames == RequiredParams \cup {"maxPts", "partitioning", "help", "bogus"}
\* values given to --partitioning
PartitioningTokens == {"singleBlock", "auto", "foo"}
\* values given to --maxPts
MaxPtsTokens == {-2, -1, 0, 1, 2}
\* values of largeScale.gridLevel0 in the ini file
GridLevels == {1, 2, 250, DefaultGridLevel0}
TrackCounts == 0 .. MaxTracks
\* (vertices, faces) of a mesh: faces index vertices, so faces need vertices
MeshShapes == {s \in [pts : 0 .. MaxMeshElems, tris : 0 .. MaxMeshElems] :
                 s.tris > 0 => s.pts > 0}

ArtifactNames == {"denseReconstruction.bin", "outputMesh", "meshPtsCamsFromDGC.bin"}
NoMesh == [src |-> "none", post |-> FALSE, pts |-> 0, tris |-> 0]
\* content of an artifact this run has not written
NotWritten == [src |-> "none", post |-> FALSE]
\* hexahsToReconstruct.bin does not exist
Absent == [present |-> FALSE, plan |-> 0]

(* ---------------- pure functions ---------------- *)
EPartitioning_stringToEnum(s) ==
  IF s = "singleBlock" THEN "eSingleBlock"
  ELSE IF s = "auto" THEN "eAuto"
  ELSE "eUndefined"

\* argc: the program name plus the tokens given
Argc(o) == 1 + Cardinality(o)

\* po::parse_command_line throws unknown_option for a name not in allParams
ParseThrows(o) == o \ AllParams # {}

\* vm.count("help"): counts a stored option, and only registered ones are stored
HelpCount(o) == IF "help" \in (o \cap AllParams) THEN 1 ELSE 0

\* notify that does not insist on the output option
NotifyThrowsLax(o) == ~ ((RequiredParams \ {"output"}) \subseteq o)

\* po::notify throws required_option when a ->required() option is absent
NotifyThrows(o) == ~ (RequiredParams \subseteq o)

\* conversion of the int maxPts to unsigned long in "ntracks > maxPts"
ToULong(m) == m % ULongModulus

\* the loop test while(ntracks > maxPts), unsigned long against int
ExceedsBudget(n, m) == n > ToULong(m)

\* (double)ntracks / (double)maxPts < 2.0
IsSlow(n, m) ==
  IF m > 0 THEN n < 2 * m
  ELSE IF m = 0 THEN FALSE      \* +inf or NaN
  ELSE TRUE                     \* quotient <= 0

\* (int)(ocTreeDim * 0.5): truncation toward zero
HalfDim(d) == IF d >= 0 THEN d \div 2 ELSE -((-d) \div 2)

\* ocTreeDim = (t < 2.0) ? ocTreeDim-100 : ocTreeDim*0.5
Downsample(d, n, m) == IF IsSlow(n, m) THEN d - SlowStep ELSE HalfDim(d)

\* a cache check that never finds the file
FileExistsNever(f) == FALSE /\ f.present

\* FileExists(voxelsArrayFileName)
FileExists(f) == f.present

\* mesh->pts->empty()
IsEmptyMesh(me) == me.pts = 0

\* a switch that enters the auto case for eSingleBlock as well
CaseLabelAutoFirst(p) ==
  IF p = "eAuto" \/ p = "eSingleBlock" THEN "auto_generateSpace"
  ELSE "case_eUndefined"

\* first case label reached by switch(partitioning)
CaseLabel(p) ==
  IF p = "eAuto" THEN "auto_generateSpace"
  ELSE IF p = "eSingleBlock" THEN "sb_generateSpace"
  ELSE "case_eUndefined"

(* ---------------- Rig, lines 15-164 ---------------- *)
\* enum class ERigSubPoseStatus
ERigSubPoseStatus == {"UNINITIALIZED", "ESTIMATED", "CONSTANT"}
\* values of geometry::Pose3; Pose3() is the identity
Poses == {"identity", "moved"}
\* struct RigSubPose
RigSubPose == [status : ERigSubPoseStatus, pose : Poses]
\* RigSubPose(): the default arguments of the constructor
DefaultRigSubPose == [status |-> "UNINITIALIZED", pose |-> "identity"]

\* the call made last on the rig
NoCall == [op |-> "none", index |-> 0, arg |-> DefaultRigSubPose]
\* no Rig has been constructed
NoRig == [state |-> "none", nbSubPoses |-> 0, subPoses |-> << >>,
          last |-> NoCall]

\* _subPoses.resize(nbSubPoses) on an empty vector
Resize(n) == [i \in 1 .. n |-> DefaultRigSubPose]

\* an isInitialized that takes only ESTIMATED for initialized
RECURSIVE isInitializedEstimatedOnly(_, _)
isInitializedEstimatedOnly(subPoses, k) ==
  IF k > Len(subPoses) THEN FALSE
  ELSE IF subPoses[k].status = "ESTIMATED" THEN TRUE
  ELSE isInitializedEstimatedOnly(subPoses, k + 1)

\* Rig::isInitialized: the loop over _subPoses from its k-th element on
RECURSIVE isInitialized(_, _)
isInitialized(subPoses, k) ==
  IF k > Len(subPoses) THEN FALSE
  ELSE IF subPoses[k].status # "UNINITIALIZED" THEN TRUE
  ELSE isInitialized(subPoses, k + 1)

\* Rig::getNbSubPoses
getNbSubPoses(subPoses) == Len(subPoses)

\* _subPoses.at(index), for an index the vector has (indices start at 0)
getSubPose(subPoses, index) == subPoses[index + 1]

\* an assignment that lands one element too far
StoreSubPoseShifted(subPoses, index, rigSubPose) ==
  [subPoses EXCEPT ![IF index + 2 <= Len(subPoses) THEN index + 2 ELSE 1] =
     rigSubPose]

\* _subPoses[index] = rigSubPose, for an index the vector has
StoreSubPose(subPoses, index, rigSubPose) ==
  [subPoses EXCEPT ![index + 1] = rigSubPose]

\* every content a vector of at most MaxSubPoses sub-poses can have
AnySubPoses == UNION {[1 .. n -> RigSubPose] : n \in 0 .. MaxSubPoses}

(* ---------------- state ---------------- *)
VARIABLES
  pc,            \* position in main, "idle" between runs, "exited" after a run
  opts,          \* option names on the command line
  partArg,       \* value given to --partitioning
  maxPtsArg,     \* value given to --maxPts
  partitioning,  \* EPartitioning partitioning
  maxPts,        \* int maxPts
  ocTreeDim,     \* int ocTreeDim
  ntracks,       \* unsigned long ntracks
  mesh,          \* mv_mesh* mesh of the current branch
  called,        \* collaborator calls made so far in this run
  usagePrinted,  \* allParams was printed
  errorMsg,      \* what was reported on failure
  exitStatus,    \* how the process ended
  files,         \* what this run wrote to each final artifact
  writes,        \* how many times this run wrote each final artifact
  voxelsArrayFile, \* hexahsToReconstruct.bin in the cache directory
  planSeen,      \* what FileExists(voxelsArrayFileName) saw in this run
  lastCloned,    \* {resolution of the last cloneSpaceIfDoesNotExists}, or {}
  loadedDim,     \* {resolution loadSpaceFromFile loaded}, or {}
  outDirExists,  \* the output directory exists on disk
  rig            \* a Rig object: its _subPoses and the last call made on it

vars == <<pc, opts, partArg, maxPtsArg, partitioning, maxPts, ocTreeDim,
          ntracks, mesh, called, usagePrinted, errorMsg, exitStatus, files,
          writes, voxelsArrayFile, planSeen, lastCloned, loadedDim,
          outDirExists, rig>>

\* the state of main
mainVars == <<pc, opts, partArg, maxPtsArg, partitioning, maxPts, ocTreeDim,
              ntracks, mesh, called, usagePrinted, errorMsg, exitStatus,
              files, writes, voxelsArrayFile, planSeen, lastCloned, loadedDim,
              outDirExists>>

argv == <<opts, partArg, maxPtsArg>>
disk == <<voxelsArrayFile, outDirExists>>
artifacts == <<files, writes>>
search == <<ocTreeDim, ntracks, lastCloned, loadedDim>>
outcome == <<usagePrinted, errorMsg, exitStatus>>

\* the locals of main as they are when main is entered
FreshRun ==
  /\ partitioning = "eSingleBlock"
  /\ maxPts = DefaultMaxPts
  /\ ocTreeDim = 0
  /\ ntracks = 0
  /\ mesh = NoMesh
  /\ called = {}
  /\ usagePrinted = FALSE
  /\ errorMsg = "none"
  /\ exitStatus = "running"
  /\ files = [a \in ArtifactNames |-> NotWritten]
  /\ writes = [a \in ArtifactNames |-> 0]
  /\ planSeen = "unchecked"
  /\ lastCloned = {}
  /\ loadedDim = {}

Init ==
  /\ pc = "idle"
  /\ opts = {}
  /\ partArg = "singleBlock"
  /\ maxPtsArg = DefaultMaxPts
  /\ FreshRun
  /\ voxelsArrayFile = Absent
  /\ outDirExists \in BOOLEAN
  /\ rig = NoRig

\* an uncaught exception leaves main: std::terminate
Throw(msg) ==
  /\ pc' = "exited"
  /\ exitStatus' = "abort"
  /\ errorMsg' = msg
  /\ UNCHANGED usagePrinted

\* the call returned and main goes on
Goto(label) ==
  /\ pc' = label
  /\ UNCHANGED outcome

\* a collaborator call that returns or throws
Call(name, label) ==
  /\ called' = called \cup {name}
  /\ \E ok \in BOOLEAN : IF ok THEN Goto(label) ELSE Throw("exception")

(* ---------------- a run is started ---------------- *)
StartRun ==
  /\ pc = "idle"
  /\ pc' = "main"
  /\ opts' \in SUBSET ArgNames
  /\ partArg' \in IF "partitioning" \in opts' THEN PartitioningTokens ELSE {"singleBlock"}
  /\ maxPtsArg' \in IF "maxPts" \in opts' THEN MaxPtsTokens ELSE {DefaultMaxPts}
  /\ UNCHANGED <<partitioning, maxPts, mesh, called, planSeen>>
  /\ UNCHANGED <<search, outcome, artifacts, disk>>
  /\ UNCHANGED rig

(* ---------------- option parsing, lines 255-278 ---------------- *)
ParseCommandLine ==
  /\ pc = "main"
  /\ IF ParseThrows(opts)
     THEN \* catch(po::error&)
          /\ pc' = "exited"
          /\ errorMsg' = "ERROR: option"
          /\ usagePrinted' = TRUE
          /\ exitStatus' = "EXIT_FAILURE"
          /\ UNCHANGED <<partitioning, maxPts>>
     ELSE IF HelpCount(opts) > 0 \/ Argc(opts) = 1
     THEN /\ pc' = "exited"
          /\ usagePrinted' = TRUE
          /\ exitStatus' = "EXIT_SUCCESS"
          /\ UNCHANGED <<errorMsg, partitioning, maxPts>>
     ELSE IF NotifyThrows(opts)
     THEN \* catch(po::required_option&)
          /\ pc' = "exited"
          /\ errorMsg' = "ERROR: option"
          /\ usagePrinted' = TRUE
          /\ exitStatus' = "EXIT_FAILURE"
          /\ UNCHANGED <<partitioning, maxPts>>
     ELSE /\ pc' = "ini"
          /\ partitioning' = IF "partitioning" \in opts
                             THEN EPartitioning_stringToEnum(partArg)
                             ELSE "eSingleBlock"
          /\ maxPts' = IF "maxPts" \in opts THEN maxPtsArg ELSE DefaultMaxPts
          /\ UNCHANGED outcome
  /\ UNCHANGED <<argv, mesh, called, planSeen, search, artifacts, disk>>
  /\ UNCHANGED rig

(* ---------------- .ini parsing, lines 280-290 ---------------- *)
ParseIni ==
  /\ pc = "ini"
  /\ called' = called \cup {"multiviewInputParams"}
  /\ \E ok \in BOOLEAN, level \in GridLevels :
       IF ok
       THEN /\ Goto("mkdir")
            /\ ocTreeDim' = level
       ELSE /\ Throw("exception")
            /\ UNCHANGED ocTreeDim
  /\ UNCHANGED <<argv, partitioning, maxPts, ntracks, lastCloned, loadedDim,
                 mesh, planSeen, artifacts, disk>>
  /\ UNCHANGED rig

(* ---------------- output directory, lines 292-296 ---------------- *)
MakeOutDirectory ==
  /\ pc = "mkdir"
  /\ IF ~ outDirExists
     THEN /\ called' = called \cup {"create_directory"}
          /\ \E ok \in BOOLEAN :
               IF ok THEN Goto("switch") /\ outDirExists' = TRUE
                     ELSE Throw("exception") /\ UNCHANGED outDirExists
     ELSE /\ Goto("switch")
          /\ UNCHANGED <<called, outDirExists>>
  /\ UNCHANGED <<argv, partitioning, maxPts, search, mesh, planSeen,
                 artifacts, voxelsArrayFile>>
  /\ UNCHANGED rig

(* ---------------- switch(partitioning), line 298 ---------------- *)
Switch ==
  /\ pc = "switch"
  /\ Goto(CaseLabel(partitioning))
  /\ UNCHANGED <<argv, partitioning, maxPts, search, mesh, called, planSeen,
                 artifacts, disk>>
  /\ UNCHANGED rig

(* ---------------- case eAuto, lines 300-339 ---------------- *)
\* lsbase.generateSpace(maxPtsPerVoxel, ocTreeDim), lines 302-304
AutoGenerateSpace ==
  /\ pc = "auto_generateSpace"
  /\ Call("lsbase.generateSpace", "auto_plan")
  /\ UNCHANGED <<argv, partitioning, maxPts, search, mesh, planSeen,
                 artifacts, disk>>
  /\ UNCHANGED rig

\* if(FileExists(voxelsArrayFileName)) ... reload, lines 307-312
AutoLoadPlan ==
  /\ pc = "auto_plan"
  /\ FileExists(voxelsArrayFile)
  /\ planSeen' = "present"
  /\ Call("loadArrayFromFile", "auto_reconstruct")
  /\ UNCHANGED <<argv, partitioning, maxPts, search, mesh, artifacts, disk>>
  /\ UNCHANGED rig

\* else ... computeReconstructionPlanBinSearch, saveArrayToFile, lines 313-319
AutoComputePlan ==
  /\ pc = "auto_plan"
  /\ ~ FileExists(voxelsArrayFile)
  /\ planSeen' = "absent"
  /\ \E computed \in BOOLEAN, saved \in BOOLEAN :
       IF ~ computed
       THEN /\ called' = called \cup {"computeReconstructionPlanBinSearch"}
            /\ Throw("exception")
            /\ UNCHANGED voxelsArrayFile
       ELSE /\ called' = called \cup {"computeReconstructionPlanBinSearch",
                                      "saveArrayToFile"}
            /\ IF saved
               THEN /\ voxelsArrayFile' = [present |-> TRUE, plan |-> maxPts]
                    /\ Goto("auto_reconstruct")
               ELSE /\ UNCHANGED voxelsArrayFile
                    /\ Throw("exception")
  /\ UNCHANGED <<argv, partitioning, maxPts, search, mesh, artifacts,
                 outDirExists>>
  /\ UNCHANGED rig

\* reconstructSpaceAccordingToVoxelsArray, line 320
AutoReconstruct ==
  /\ pc = "auto_reconstruct"
  /\ Call("reconstructSpaceAccordingToVoxelsArray", "auto_join")
  /\ UNCHANGED <<argv, partitioning, maxPts, search, mesh, planSeen,
                 artifacts, disk>>
  /\ UNCHANGED rig

\* mv_mesh* mesh = joinMeshes(voxelsArrayFileName, &lsbase), line 322
AutoJoinMeshes ==
  /\ pc = "auto_join"
  /\ called' = called \cup {"joinMeshes"}
  /\ \E ok \in BOOLEAN, shape \in MeshShapes :
       IF ok
       THEN /\ Goto("auto_saveToBin")
            /\ mesh' = [src |-> "joinMeshes", post |-> FALSE,
                        pts |-> shape.pts, tris |-> shape.tris]
       ELSE /\ Throw("exception")
            /\ UNCHANGED mesh
  /\ UNCHANGED <<argv, partitioning, maxPts, search, planSeen, artifacts, disk>>
  /\ UNCHANGED rig

\* writing the current mesh (or the ptsCams that go with it) to an artifact
Save(name, label) ==
  /\ called' = called \cup {"save " \o name}
  /\ \E ok \in BOOLEAN :
       IF ok
       THEN /\ Goto(label)
            /\ files' = [files EXCEPT ![name] = [src |-> mesh.src, post |-> mesh.post]]
            /\ writes' = [writes EXCEPT ![name] = @ + 1]
       ELSE /\ Throw("exception")
            /\ UNCHANGED artifacts

\* mesh->saveToBin(spaceBinFileName), lines 324-327
AutoSaveToBin ==
  /\ pc = "auto_saveToBin"
  /\ Save("denseReconstruction.bin", "auto_saveObj")
  /\ UNCHANGED <<argv, partitioning, maxPts, search, mesh, planSeen, disk>>
  /\ UNCHANGED rig

\* o3d.saveMvMeshToObj(mesh, outputMesh); delete mesh, lines 329-333
AutoSaveObj ==
  /\ pc = "auto_saveObj"
  /\ Save("outputMesh", "auto_ptsCams")
  /\ UNCHANGED <<argv, partitioning, maxPts, search, mesh, planSeen, disk>>
  /\ UNCHANGED rig

\* loadLargeScalePtsCams, saveArrayOfArraysToFile, lines 335-338; the case
\* has no break, so control goes on into case eSingleBlock
AutoSavePtsCams ==
  /\ pc = "auto_ptsCams"
  /\ Save("meshPtsCamsFromDGC.bin", "sb_generateSpace")
  /\ UNCHANGED <<argv, partitioning, maxPts, search, mesh, planSeen, disk>>
  /\ UNCHANGED rig

(* ---------------- case eSingleBlock, lines 340-405 ---------------- *)
\* ls0.generateSpace(maxPtsPerVoxel, ocTreeDim); ntracks = max(), lines 342-345
SbGenerateSpace ==
  /\ pc = "sb_generateSpace"
  /\ Call("ls0.generateSpace", "search")
  /\ ntracks' = ULongMax
  /\ UNCHANGED <<argv, partitioning, maxPts, ocTreeDim, lastCloned, loadedDim,
                 mesh, planSeen, artifacts, disk>>
  /\ UNCHANGED rig

\* one iteration of while(ntracks > maxPts), lines 346-361
SearchIteration ==
  /\ pc = "search"
  /\ ExceedsBudget(ntracks, maxPts)
  /\ \E ok \in BOOLEAN, n \in TrackCounts :
       IF ok
       THEN /\ called' = called \cup {"cloneSpaceIfDoesNotExists", "getNTracks"}
            /\ lastCloned' = {ocTreeDim}
            /\ ntracks' = n
            /\ ocTreeDim' = IF ExceedsBudget(n, maxPts)
                            THEN Downsample(ocTreeDim, n, maxPts)
                            ELSE ocTreeDim
            /\ ocTreeDim' >= MinOcTreeDim
            /\ Goto("search")
       ELSE /\ called' = called \cup {"cloneSpaceIfDoesNotExists"}
            /\ Throw("exception")
            /\ UNCHANGED <<lastCloned, ntracks, ocTreeDim>>
  /\ UNCHANGED <<argv, partitioning, maxPts, loadedDim, mesh, planSeen,
                 artifacts, disk>>
  /\ UNCHANGED rig

\* the loop is left; lsbase.loadSpaceFromFile(), reconstructionPlan rp,
\* lines 362-370
SbLoadSpace ==
  /\ pc = "search"
  /\ ~ ExceedsBudget(ntracks, maxPts)
  /\ called' = called \cup {"loadSpaceFromFile"}
  /\ \E ok \in BOOLEAN :
       IF ok THEN Goto("sb_reconstructVoxel") /\ loadedDim' = {ocTreeDim}
             ELSE Throw("exception") /\ UNCHANGED loadedDim
  /\ UNCHANGED <<argv, partitioning, maxPts, ocTreeDim, ntracks, lastCloned,
                 mesh, planSeen, artifacts, disk>>
  /\ UNCHANGED rig

\* delaunayGC.reconstructVoxel(...), lines 371-375
SbReconstructVoxel ==
  /\ pc = "sb_reconstructVoxel"
  /\ Call("reconstructVoxel", "sb_graphCutPostProcessing")
  /\ UNCHANGED <<argv, partitioning, maxPts, search, mesh, planSeen,
                 artifacts, disk>>
  /\ UNCHANGED rig

\* delaunayGC.graphCutPostProcessing(), lines 377-385
SbGraphCutPostProcessing ==
  /\ pc = "sb_graphCutPostProcessing"
  /\ Call("graphCutPostProcessing", "sb_createMesh")
  /\ UNCHANGED <<argv, partitioning, maxPts, search, mesh, planSeen,
                 artifacts, disk>>
  /\ UNCHANGED rig

\* mesh = delaunayGC.createMesh(); if(mesh->pts->empty()) throw, lines 388-390
SbCreateMesh ==
  /\ pc = "sb_createMesh"
  /\ called' = called \cup {"createMesh"}
  /\ \E ok \in BOOLEAN, shape \in MeshShapes :
       IF ok
       THEN LET me == [src |-> "createMesh", post |-> FALSE,
                       pts |-> shape.pts, tris |-> shape.tris]
            IN /\ mesh' = me
               /\ IF IsEmptyMesh(me) THEN Throw("Empty mesh")
                                     ELSE Goto("sb_createPtsCams")
       ELSE /\ Throw("exception")
            /\ UNCHANGED mesh
  /\ UNCHANGED <<argv, partitioning, maxPts, search, planSeen, artifacts, disk>>
  /\ UNCHANGED rig

\* createPtsCams(), getSortedUsedCams(), lines 392-393
SbCreatePtsCams ==
  /\ pc = "sb_createPtsCams"
  /\ Call("createPtsCams", "sb_meshPostProcessing")
  /\ UNCHANGED <<argv, partitioning, maxPts, search, mesh, planSeen,
                 artifacts, disk>>
  /\ UNCHANGED rig

\* meshPostProcessing(mesh, ptsCams, ...), line 395
SbMeshPostProcessing ==
  /\ pc = "sb_meshPostProcessing"
  /\ called' = called \cup {"meshPostProcessing"}
  /\ \E ok \in BOOLEAN :
       IF ok THEN Goto("sb_saveToBin") /\ mesh' = [mesh EXCEPT !.post = TRUE]
             ELSE Throw("exception") /\ UNCHANGED mesh
  /\ UNCHANGED <<argv, partitioning, maxPts, search, planSeen, artifacts, disk>>
  /\ UNCHANGED rig

\* mesh->saveToBin(outDirectory/"denseReconstruction.bin"), line 396
SbSaveToBin ==
  /\ pc = "sb_saveToBin"
  /\ Save("denseReconstruction.bin", "sb_savePtsCams")
  /\ UNCHANGED <<argv, partitioning, maxPts, search, mesh, planSeen, disk>>
  /\ UNCHANGED rig

\* saveArrayOfArraysToFile(outDirectory/"meshPtsCamsFromDGC.bin"), lines 398-399
SbSavePtsCams ==
  /\ pc = "sb_savePtsCams"
  /\ Save("meshPtsCamsFromDGC.bin", "sb_saveObj")
  /\ UNCHANGED <<argv, partitioning, maxPts, search, mesh, planSeen, disk>>
  /\ UNCHANGED rig

\* o3d.saveMvMeshToObj(mesh, outputMesh); delete mesh, lines 401-404; the
\* case has no break, so control goes on into case eUndefined
SbSaveObj ==
  /\ pc = "sb_saveObj"
  /\ Save("outputMesh", "case_eUndefined")
  /\ UNCHANGED <<argv, partitioning, maxPts, search, mesh, planSeen, disk>>
  /\ UNCHANGED rig

(* ---------------- case eUndefined, lines 406-407 ---------------- *)
CaseUndefined ==
  /\ pc = "case_eUndefined"
  /\ Throw("Partitioning not defined")
  /\ UNCHANGED <<argv, partitioning, maxPts, search, mesh, called, planSeen,
                 artifacts, disk>>
  /\ UNCHANGED rig

(* ---------------- the process is gone; the disk stays ---------------- *)
EndRun ==
  /\ pc = "exited"
  /\ pc' = "idle"
  /\ opts' = {}
  /\ partArg' = "singleBlock"
  /\ maxPtsArg' = DefaultMaxPts
  /\ partitioning' = "eSingleBlock"
  /\ maxPts' = DefaultMaxPts
  /\ ocTreeDim' = 0
  /\ ntracks' = 0
  /\ mesh' = NoMesh
  /\ called' = {}
  /\ usagePrinted' = FALSE
  /\ errorMsg' = "none"
  /\ exitStatus' = "running"
  /\ files' = [a \in ArtifactNames |-> NotWritten]
  /\ writes' = [a \in ArtifactNames |-> 0]
  /\ planSeen' = "unchecked"
  /\ lastCloned' = {}
  /\ loadedDim' = {}
  /\ UNCHANGED disk
  /\ UNCHANGED rig

Next ==
  \/ StartRun
  \/ ParseCommandLine
  \/ ParseIni
  \/ MakeOutDirectory
  \/ Switch
  \/ AutoGenerateSpace
  \/ AutoLoadPlan
  \/ AutoComputePlan
  \/ AutoReconstruct
  \/ AutoJoinMeshes
  \/ AutoSaveToBin
  \/ AutoSaveObj
  \/ AutoSavePtsCams
  \/ SbGenerateSpace
  \/ SearchIteration
  \/ SbLoadSpace
  \/ SbReconstructVoxel
  \/ SbGraphCutPostProcessing
  \/ SbCreateMesh
  \/ SbCreatePtsCams
  \/ SbMeshPostProcessing
  \/ SbSaveToBin
  \/ SbSavePtsCams
  \/ SbSaveObj
  \/ CaseUndefined
  \/ EndRun

Spec == Init /\ [][Next]_vars

\* main is one sequential thread: a step that can be taken is taken
FairSpec == Spec /\ WF_vars(Next)

(* ---------------- operations on a Rig ---------------- *)
\* explicit Rig(unsigned int nbSubPoses = 0), lines 71-74
RigConstruct ==
  /\ \E n \in 0 .. MaxSubPoses :
       rig' = [state |-> "alive", nbSubPoses |-> n, subPoses |-> Resize(n),
               last |-> [NoCall EXCEPT !.op = "Rig"]]
  /\ UNCHANGED mainVars

\* void setSubPose(IndexT index, const RigSubPose& rigSubPose), lines 144-148.
\* With an index the vector does not have, the assert ends the process in a
\* build with assertions, and the write is out of bounds in a build without.
RigSetSubPose ==
  /\ rig.state = "alive"
  /\ \E index \in 0 .. MaxSubPoses, rigSubPose \in RigSubPose :
       LET call == [op |-> "setSubPose", index |-> index, arg |-> rigSubPose]
       IN IF Len(rig.subPoses) > index
          THEN rig' = [rig EXCEPT
                         !.subPoses = StoreSubPose(rig.subPoses, index, rigSubPose),
                         !.last = call]
          ELSE \/ rig' = [rig EXCEPT !.state = "aborted", !.last = call]
               \/ \E any \in AnySubPoses :
                    rig' = [rig EXCEPT !.state = "undefined",
                                       !.subPoses = any, !.last = call]
  /\ UNCHANGED mainVars

\* getSubPose(IndexT index), lines 124-137: at() throws std::out_of_range
\* for an index the vector does not have; the rig is not changed
RigGetSubPose ==
  /\ rig.state = "alive"
  /\ \E index \in 0 .. MaxSubPoses :
       rig' = [rig EXCEPT
                 !.last = [op |-> IF index < Len(rig.subPoses)
                                  THEN "getSubPose" ELSE "out_of_range",
                           index |-> index,
                           arg |-> IF index < Len(rig.subPoses)
                                   THEN getSubPose(rig.subPoses, index)
                                   ELSE DefaultRigSubPose]]
  /\ UNCHANGED mainVars

RigNext ==
  \/ RigConstruct
  \/ RigSetSubPose
  \/ RigGetSubPose

\* a Rig used on its own
RigSpec == Init /\ [][RigNext]_vars

TypeOK ==
  /\ opts \subseteq ArgNames
  /\ partitioning \in {"eUndefined", "eSingleBlock", "eAuto"}
  /\ ntracks \in 0 .. ULongMax
  /\ exitStatus \in {"running", "EXIT_SUCCESS", "EXIT_FAILURE", "abort"}
  /\ \A a \in ArtifactNames : writes[a] \in 0 .. 2

(* ======================= properties ======================= *)
\* calls that belong to the single-block path
SingleBlockSteps == {"ls0.generateSpace", "cloneSpaceIfDoesNotExists",
                     "getNTracks", "loadSpaceFromFile", "reconstructVoxel",
                     "graphCutPostProcessing", "createMesh", "createPtsCams",
                     "meshPostProcessing"}
\* calls that belong to the auto (multi-voxel) path
AutoSteps == {"lsbase.generateSpace", "loadArrayFromFile",
              "computeReconstructionPlanBinSearch", "saveArrayToFile",
              "reconstructSpaceAccordingToVoxelsArray", "joinMeshes"}
\* the run did not end on an exit code returned by main
NonZeroExit == exitStatus \in {"EXIT_FAILURE", "abort"}

\* C1: once the resolution search is left and the space is loaded for
\* reconstruction, the last measured track count is within the budget.
C1_BudgetRespected ==
  loadedDim # {} => ntracks <= maxPts

\* C2: the resolution search always comes to an end: every run that enters
\* the search leaves it (by accepting a resolution or by failing).
C2_SearchTerminates ==
  (pc = "search") ~> (pc # "search")

\* C3: in auto mode only the multi-voxel path runs: no single-block step is
\* executed and each final artifact is written at most once, holding the
\* merged mesh.
C3_AutoOnlyMultiVoxel ==
  partitioning = "eAuto" =>
    /\ called \cap SingleBlockSteps = {}
    /\ \A a \in ArtifactNames :
         /\ writes[a] <= 1
         /\ writes[a] = 1 => files[a].src = "joinMeshes"

\* C4: in single-block mode no step of the auto path (plan, per-voxel
\* reconstruction, joinMeshes) is invoked, and the OBJ written at the output
\* path is the post-processed mesh of createMesh.
C4_SingleBlockNoMerge ==
  partitioning = "eSingleBlock" =>
    /\ called \cap AutoSteps = {}
    /\ writes["outputMesh"] > 0 =>
         files["outputMesh"] = [src |-> "createMesh", post |-> TRUE]

C4_Witness ==
  /\ partitioning = "eSingleBlock"
  /\ pc = "case_eUndefined"
  /\ writes["outputMesh"] = 1

\* C5: a --partitioning value other than singleBlock and auto is a
\* configuration error: usage is printed, the exit status is non-zero and
\* nothing after option parsing is executed.
C5_UnknownPartitioningIsConfigError ==
  (/\ pc = "exited"
   /\ "partitioning" \in opts
   /\ partArg \notin {"singleBlock", "auto"}
   /\ errorMsg # "exception")
  => (usagePrinted /\ NonZeroExit /\ called = {})

\* C6: with at least one argument, a missing required option or an
\* unrecognized option ends the run with the usage text and EXIT_FAILURE
\* before the ini is parsed, a directory is created or anything is
\* reconstructed.
C6_BadOptionsFail ==
  (/\ pc \notin {"idle", "main"}
   /\ Cardinality(opts) > 0
   /\ \/ \E r \in {"ini", "depthMapFolder", "depthMapFilterFolder", "output"} :
           r \notin opts
      \/ \E o \in opts : o \in {"help", "bogus"})
  => (/\ pc = "exited"
      /\ usagePrinted
      /\ exitStatus = "EXIT_FAILURE"
      /\ called = {})

C6_Witness ==
  /\ pc = "exited"
  /\ opts = {"ini", "depthMapFolder", "depthMapFilterFolder", "partitioning"}
  /\ exitStatus = "EXIT_FAILURE"

\* C7: a help request, and a command line without arguments, print the usage
\* text and exit with EXIT_SUCCESS without any reconstruction step.
C7_HelpOrNoArgsSucceed ==
  (pc = "exited" /\ ("help" \in opts \/ opts = {}))
  => (usagePrinted /\ exitStatus = "EXIT_SUCCESS" /\ called = {})

\* C8: in single-block mode a mesh of createMesh with zero faces ends the run
\* with the "Empty mesh" error before post-processing and before any artifact
\* is written.
C8_ZeroFacesFatal ==
  (/\ partitioning = "eSingleBlock"
   /\ mesh.src = "createMesh"
   /\ mesh.tris = 0)
  => (/\ pc = "exited"
      /\ errorMsg = "Empty mesh"
      /\ "meshPostProcessing" \notin called
      /\ \A a \in ArtifactNames : writes[a] = 0)

\* C9: a run that ends with a fatal error has written no final artifact.
C9_NoOutputOnFatalError ==
  (pc = "exited" /\ exitStatus = "abort")
  => \A a \in ArtifactNames : writes[a] = 0

\* C10: the plan file is computed and written only by a run that found it
\* absent; a run that found it present neither computes nor writes it, and
\* once present the file never changes, whatever later runs are given.
C10_PlanCacheReused ==
  /\ [](/\ "computeReconstructionPlanBinSearch" \in called => planSeen = "absent"
        /\ "saveArrayToFile" \in called => planSeen = "absent"
        /\ planSeen = "present" => "loadArrayFromFile" \in called)
  /\ [][voxelsArrayFile.present => voxelsArrayFile' = voxelsArrayFile]_vars

C10_Witness ==
  /\ pc = "auto_reconstruct"
  /\ planSeen = "present"
  /\ voxelsArrayFile.present
  /\ voxelsArrayFile.plan # maxPts

\* C11: isInitialized() is true exactly when some sub-pose of the rig has a
\* status other than UNINITIALIZED; a rig just constructed, and a rig without
\* sub-poses, is not initialized.
C11_InitializedIffSomeSubPose ==
  rig.state = "alive" =>
    /\ isInitialized(rig.subPoses, 1)
         <=> (\E i \in 1 .. Len(rig.subPoses) :
                rig.subPoses[i].status \in {"ESTIMATED", "CONSTANT"})
    /\ rig.last.op = "Rig" => ~ isInitialized(rig.subPoses, 1)
    /\ Len(rig.subPoses) = 0 => ~ isInitialized(rig.subPoses, 1)

C11_Witness ==
  /\ rig.state = "alive"
  /\ rig.last.op = "setSubPose"
  /\ Len(rig.subPoses) = 2
  /\ rig.subPoses[1].status = "UNINITIALIZED"
  /\ rig.subPoses[2].status = "CONSTANT"
  /\ isInitialized(rig.subPoses, 1)

\* C12: an iteration of the search whose measured count exceeds the budget
\* replaces ocTreeDim by ocTreeDim - 100 when ntracks / maxPts < 2 and by
\* half of it (truncated) otherwise, and the new resolution is strictly
\* smaller than the previous one; an iteration within the budget leaves the
\* resolution unchanged.
C12_StrictDownsampling ==
  [][(pc = "search" /\ pc' = "search") =>
       IF ntracks' > maxPts
       THEN /\ ocTreeDim' = IF maxPts # 0 /\ ntracks' < 2 * maxPts
                            THEN ocTreeDim - 100
                            ELSE IF ocTreeDim >= 0 THEN ocTreeDim \div 2
                                 ELSE -((-ocTreeDim) \div 2)
            /\ ocTreeDim' < ocTreeDim
       ELSE ocTreeDim' = ocTreeDim]_vars

\* C13: every export of a final mesh (denseReconstruction.bin, the OBJ at the
\* output path) is of a mesh that meshPostProcessing has processed before, in
\* both partitioning modes.
C13_ExportAfterPostProcessing ==
  \A a \in {"denseReconstruction.bin", "outputMesh"} :
    writes[a] > 0 => (files[a].post /\ "meshPostProcessing" \in called)

\* C14: on a rig of n sub-poses, setSubPose(i, p) with i < n makes
\* getSubPose(i) equal to p and leaves the other sub-poses as they were;
\* getSubPose changes nothing; getNbSubPoses() stays n.
C14_SetSubPoseFrame ==
  /\ [](rig.state = "alive" => getNbSubPoses(rig.subPoses) = rig.nbSubPoses)
  /\ [][(rig.state = "alive" /\ rig'.state = "alive") =>
          /\ rig'.last.op = "setSubPose" =>
               /\ rig'.last.index < rig.nbSubPoses
               /\ getSubPose(rig'.subPoses, rig'.last.index) = rig'.last.arg
               /\ \A j \in 0 .. rig.nbSubPoses - 1 :
                    j # rig'.last.index =>
                      getSubPose(rig'.subPoses, j) = getSubPose(rig.subPoses, j)
          /\ rig'.last.op \in {"getSubPose", "out_of_range"} =>
               rig'.subPoses = rig.subPoses
          /\ rig'.last.op = "getSubPose" =>
               rig'.last.arg = rig.subPoses[rig'.last.index + 1]]_vars

C14_Witness ==
  /\ rig.state = "alive"
  /\ rig.nbSubPoses = 2
  /\ rig.last.op = "setSubPose"
  /\ rig.last.index = 1
  /\ rig.last.arg = [status |-> "ESTIMATED", pose |-> "moved"]
  /\ rig.subPoses[2] = rig.last.arg
  /\ rig.subPoses[1] = [status |-> "CONSTANT", pose |-> "identity"]

\* C15: a run with a valid partitioning mode in which every stage succeeds
\* returns EXIT_SUCCESS, and "Partitioning not defined" is raised only for
\* eUndefined.
C15_ValidModeSucceeds ==
  /\ errorMsg = "Partitioning not defined" => partitioning = "eUndefined"
  /\ (/\ pc = "exited"
      /\ "multiviewInputParams" \in called
      /\ partitioning \in {"eSingleBlock", "eAuto"}
      /\ errorMsg \notin {"exception", "Empty mesh"})
     => exitStatus = "EXIT_SUCCESS"

\* C16: the resolution given to cloneSpaceIfDoesNotExists is always >= 1.
C16_PositiveResolution ==
  \A d \in lastCloned : d >= 1

\* C17: whatever maxPts is, the track count is measured at least once before
\* the space is loaded, and the space loaded is the one of the last
\* cloneSpaceIfDoesNotExists.
C17_LoadedSpaceWasMeasured ==
  loadedDim # {} => ("getNTracks" \in called /\ loadedDim = lastCloned)

====
